---- MODULE Spec2Model ----
(***************************************************************************)
(* Bootstrap of cloud resources for the Ray autoscaler on Azure.           *)
(*   python/ray/autoscaler/azure/config.py   bootstrap_azure               *)
(*   python/ray/autoscaler/aci/config.py     bootstrap_aci                 *)
(* One run of a bootstrap function is a walk of pc through its stages; the *)
(* cloud and the local files persist from run to run.  Every cloud call    *)
(* answers "ok" or raises one of Errors, chosen by the environment.  A     *)
(* behaviour stays with one of the two entry points (variant).             *)
(***************************************************************************)
EXTENDS Integers, Sequences, FiniteSets, TLC

VARIABLES
    variant,        \* which entry point the current run executes
    pc,             \* position of the current run
    err,            \* the exception that ended the run ("" if none)
    config,         \* the configuration mapping, mutated in place
    input,          \* the configuration as the caller passed it
    repeat,         \* the run repeats the previous, returned, run's call
    cloud,          \* the resources held by the cloud provider
    authFile,       \* ~/.azure/azure_credentials_<app>.json
    keyFiles,       \* the files under ~/.ssh and the caller's own key files
    nKeyGen,        \* number of paramiko.RSAKey.generate calls so far
    sshPublicKeys,  \* aci DEFAULT_NODE_CONFIG os_profile...ssh.public_keys
    local,          \* local variables of the running stage
    ghost           \* what the current run has called and seen

vars == <<variant, pc, err, config, input, repeat, cloud, authFile, keyFiles,
          nKeyGen, sshPublicKeys, local, ghost>>

----------------------------------------------------------------------------
(* Module constants                                                        *)

RAY == "ray-autoscaler"
PASSWORD_MIN_LENGTH == 16
RETRIES == 10
SUBNET_NAME == "ray-subnet"
NSG_NAME == "ray-nsg"
VNET_NAME == "ray-vnet"

Mode0600 == 384
Mode0644 == 420

\* Cap on nKeyGen, the number of keys generated.
MaxKeyGen == 2

\* A template is absent, the caller's own mapping, or the very object
\* DEFAULT_NODE_CONFIG (kind "default": an alias, not a copy).
NoFields == [k \in {} |-> ""]
Absent == [kind |-> "absent", fields |-> NoFields]
Own(f) == [kind |-> "own", fields |-> f]

azure_DEFAULT_NODE_CONFIG ==
    [hardware_profile |-> "vm_size=Standard_D2s_v3",
     storage_profile  |-> "os_disk=FromImage,image_reference=microsoft-dsvm",
     os_profile       |-> "admin_username=ubuntu,linux_configuration",
     priority         |-> "Spot",
     evictionPolicy   |-> "Deallocate",
     billingProfile   |-> "maxPrice=-1"]

\* The os_profile entry's nested ssh.public_keys slot is the variable
\* sshPublicKeys: every shallow copy of the entry reads the same slot.
aci_DEFAULT_NODE_CONFIG ==
    [hardware_profile |-> "vm_size=Standard_D2s_v3",
     storage_profile  |-> "os_disk=FromImage,image_reference=microsoft-dsvm",
     os_profile       |-> "admin_username=ubuntu,linux_configuration"]

DEFAULT_NODE_CONFIG(v) ==
    IF v = "azure" THEN azure_DEFAULT_NODE_CONFIG ELSE aci_DEFAULT_NODE_CONFIG

\* The fields a template reads as.
Fields(v, t) == IF t.kind = "default" THEN DEFAULT_NODE_CONFIG(v) ELSE t.fields

\* The template's os_profile is a shallow copy of the aci default's: its
\* linux_configuration mapping, with the public_keys slot, is the default's.
aci_shares_os_profile(t) ==
    /\ t.kind = "own"
    /\ "os_profile" \in DOMAIN t.fields
    /\ t.fields["os_profile"] = aci_DEFAULT_NODE_CONFIG.os_profile

\* The template is DEFAULT_NODE_CONFIG itself or holds a mapping of it.
SharesDefault(v, t) ==
    t.kind = "default" \/ (v = "aci" /\ aci_shares_os_profile(t))

----------------------------------------------------------------------------
(* Errors of the cloud client                                              *)

\* azure.common.exceptions: CloudError (with the service's error code) and
\* AuthenticationError, which is not a CloudError.
Errors == {"PrincipalNotFound", "AuthorizationFailed", "AuthenticationError"}
Outcomes == {"ok"} \cup Errors
IsCloudError(e) == e \in {"PrincipalNotFound", "AuthorizationFailed"}
IsPrincipalNotFound(e) == e = "PrincipalNotFound"
IsAuthenticationError(e) == e = "AuthenticationError"

----------------------------------------------------------------------------
(* Passwords                                                               *)

ascii_lowercase == {"a", "z"}
ascii_uppercase == {"A", "Z"}
digits == {"0", "9"}
punctuation == {"!", "~"}

islower(c) == c \in ascii_lowercase
isupper(c) == c \in ascii_uppercase
isdigit(c) == c \in digits
isalnum(c) == c \in ascii_lowercase \cup ascii_uppercase \cup digits

\* What secrets.choice may draw: PASSWORD_MIN_LENGTH characters of the
\* alphabet, here the repetitions of a few four-character patterns.
Patterns ==
    {<<"a", "A", "0", "!">>, <<"~", "9", "Z", "z">>, <<"a", "a", "a", "a">>,
     <<"a", "A", "0", "9">>, <<"A", "0", "!", "~">>, <<"a", "0", "!", "~">>,
     <<"a", "A", "!", "~">>}
Draw(p) == [i \in 1..PASSWORD_MIN_LENGTH |-> p[((i - 1) % Len(p)) + 1]]
Candidates == {Draw(p) : p \in Patterns}

\* PasswordAccepted with a fault: the test for a non-alphanumeric character
\* is left out.
PasswordAccepted_no_punctuation(password) ==
    /\ \E i \in DOMAIN password : islower(password[i])
    /\ \E i \in DOMAIN password : isupper(password[i])
    /\ \E i \in DOMAIN password : isdigit(password[i])

PasswordAccepted(password) ==
    /\ \E i \in DOMAIN password : islower(password[i])
    /\ \E i \in DOMAIN password : isupper(password[i])
    /\ \E i \in DOMAIN password : isdigit(password[i])
    /\ \E i \in DOMAIN password : ~isalnum(password[i])

NoPassword == <<>>

----------------------------------------------------------------------------
(* Files                                                                   *)

\* generated_for: the ssh_user of the configuration a run generated the
\* file for ("" for a file no run generated).
NoFile ==
    [exists |-> FALSE, content |-> <<"none", 0>>, mode |-> 0,
     generated_for |-> ""]
File(c, m) ==
    [exists |-> TRUE, content |-> c, mode |-> m, generated_for |-> ""]

key_name(location, resource_group, ssh_user) ==
    RAY \o "_azure_" \o location \o "_" \o resource_group
public_key_path(name) == "~/.ssh/" \o name \o ".pub"
private_key_path(name) == "~/.ssh/" \o name \o ".pem"
auth_path(app_name) == "~/.azure/azure_credentials_" \o app_name \o ".json"

Locations == {"westus2"}
ResourceGroups == {"ray-cluster", "ray-gpu"}
Users == {"ubuntu", "ray"}
AppName == "ray-sp"
CallerKeys == {"/keys/present.pem", "/keys/missing.pem"}

KeyNames ==
    {key_name(l, g, u) : l \in Locations, g \in ResourceGroups, u \in Users}
Paths ==
    {public_key_path(n) : n \in KeyNames} \cup
    {private_key_path(n) : n \in KeyNames} \cup CallerKeys

----------------------------------------------------------------------------
(* Configurations                                                          *)

NIC == "network_interfaces=[nic]"
NO_NIC == "network_interfaces=[]"

\* config[node_type].get("network_profile", {}).get("network_interfaces", [])
\* is a non-empty list.
HasNic(t) ==
    /\ "network_profile" \in DOMAIN t.fields
    /\ t.fields["network_profile"] = NIC

\* The caller's configuration: the node templates, auth.ssh_private_key
\* ("" when not configured) and a top-level "location" key ("" when the
\* mapping has none; provider.location is always there).
Config(head, worker, key, loc, l, g, u) ==
    [head_node |-> head,
     worker_nodes |-> worker,
     ssh_private_key |-> key,
     ssh_user |-> u,
     location |-> loc,
     provider_location |-> l,
     provider_resource_group |-> g,
     provider_subscription_id |-> "",
     provider_auth_path |-> "",
     provider_subnet_id |-> "",
     provider_msi_identity_id |-> "",
     provider_ssh_public_key_data |-> <<"none", 0>>]

Variants == {"azure", "aci"}

\* The head_node / worker_nodes templates, private key and top-level
\* location of the configurations callers pass.
CallerInputs ==
    {<<Absent, Absent, "", "">>,
     <<Absent, Own([hardware_profile |-> "vm_size=Standard_NC6"]), "", "westus2">>,
     <<Own(NoFields), Own([network_profile |-> NIC]), "", "">>,
     <<Own([hardware_profile |-> "vm_size=Standard_NC6", tags |-> "user",
            network_profile |-> NO_NIC]),
       Own([os_profile |-> "user"]), "", "westus2">>,
     <<Own([network_profile |-> NIC]), Own([network_profile |-> NIC]), "", "">>,
     <<Own([network_profile |-> NIC, os_profile |-> "user"]),
       Own([network_profile |-> NIC, os_profile |-> "user",
            hardware_profile |-> "vm_size=Standard_NC6"]),
       "/keys/present.pem", "">>,
     <<Own([network_profile |-> NIC]), Own([network_profile |-> NIC]),
       "/keys/present.pem", "">>,
     <<Own([network_profile |-> NIC]), Own([network_profile |-> NIC]),
       "/keys/missing.pem", "">>}

\* provider.location, provider.resource_group and auth.ssh_user of the
\* configurations: every caller input comes with the first resource group
\* and user, and a configuration whose templates both carry network
\* interfaces also with another user.
ProviderInputs(c) ==
    IF c = <<Own([network_profile |-> NIC]), Own([network_profile |-> NIC]),
             "", "">>
    THEN {<<l, "ray-cluster", u>> : l \in Locations, u \in Users}
    ELSE {<<l, "ray-cluster", "ubuntu">> : l \in Locations}

ConfigInputs ==
    UNION {{Config(c[1], c[2], c[3], c[4], p[1], p[2], p[3]) :
               p \in ProviderInputs(c)} : c \in CallerInputs}

\* The configuration with network interfaces in another resource group.
OtherGroupInputs ==
    {Config(Own([network_profile |-> NIC]), Own([network_profile |-> NIC]),
            "", "", l, g, "ubuntu") :
        l \in Locations, g \in ResourceGroups \ {"ray-cluster"}}


----------------------------------------------------------------------------
(* State at the start of a run                                             *)

\* attempt: iterations of the retry loop so far; roleCreateOk, roleCreatePNF:
\* the role_assignments.create calls of assign_role that succeeded, that were
\* answered PrincipalNotFound.
NoLocal == [password |-> NoPassword, new_auth |-> FALSE, attempt |-> 0,
            vnets |-> FALSE, roleCreateOk |-> 0, roleCreatePNF |-> 0]

\* calls: the calls the run has issued; faults: some call raised; other: some
\* call raised an error that is not one of the two awaited transient ones;
\* keygens: key generations of the run; keyFiles0, authFile0: the files as
\* the run found them; nodes0: the head_node and worker_nodes templates as
\* _configure_nodes found them; returned: whether an earlier call returned a
\* configuration with a template that shares the default's public_keys
\* slot, and the public keys that template had when the call returned.
NoReturned == [shares |-> FALSE, keys |-> <<"none", 0>>]
NewGhost ==
    [calls |-> {}, faults |-> FALSE, other |-> FALSE, keygens |-> 0,
     nodes0 |-> <<Absent, Absent>>,
     keyFiles0 |-> keyFiles, authFile0 |-> authFile, returned |-> NoReturned]

\* The record of the configurations returned so far, at the next call.
Returned ==
    IF /\ pc = "done"
       /\ \/ aci_shares_os_profile(config.head_node)
          \/ aci_shares_os_profile(config.worker_nodes)
    THEN [shares |-> TRUE, keys |-> sshPublicKeys]
    ELSE ghost.returned

NoCloud ==
    [rg |-> FALSE, app |-> FALSE, appPassword |-> NoPassword, sp |-> FALSE,
     spRole |-> FALSE, identity |-> FALSE, msiRole |-> FALSE, vnet |-> FALSE,
     subnet |-> FALSE, nsg |-> FALSE, container_group |-> FALSE]

\* The files a first run may find: no key pair, a key pair of an earlier
\* installation, or a private key alone; no credentials file, or one whose
\* application is gone from the directory.
KeyFileInputs ==
    {[p \in Paths |-> IF p = "/keys/present.pem"
                      THEN File(<<"caller", 0>>, Mode0600) ELSE NoFile],
     [p \in Paths |->
        IF p = "/keys/present.pem" THEN File(<<"caller", 0>>, Mode0600)
        ELSE IF p \in {private_key_path(n) : n \in KeyNames}
             THEN File(<<"old", 0>>, Mode0600)
        ELSE IF p \in {public_key_path(n) : n \in KeyNames}
             THEN File(<<"old", 0>>, Mode0644)
        ELSE NoFile],
     [p \in Paths |->
        IF p = "/keys/present.pem" THEN File(<<"caller", 0>>, Mode0600)
        ELSE IF p \in {private_key_path(n) : n \in KeyNames}
             THEN File(<<"old", 0>>, Mode0644)
        ELSE NoFile]}

\* written: the file was written by a run of _configure_service_principal.
NoAuthFile == [exists |-> FALSE, clientSecret |-> NoPassword, written |-> FALSE]
AuthFileInputs ==
    {NoAuthFile,
     [exists |-> TRUE, clientSecret |-> Draw(<<"Z", "z", "9", "~">>),
      written |-> FALSE]}

Init ==
    /\ variant \in Variants
    /\ config \in ConfigInputs
    /\ input = config
    /\ pc = "resource_group"
    /\ err = ""
    /\ repeat = FALSE
    /\ cloud = NoCloud
    /\ authFile \in AuthFileInputs
    /\ keyFiles \in KeyFileInputs
    /\ nKeyGen = 0
    /\ sshPublicKeys = <<"none", 0>>
    /\ local = NoLocal
    /\ ghost = NewGhost

\* The caller invokes bootstrap_azure(config) or bootstrap_aci(config) again
\* once the previous call has returned or raised.
bootstrap(cfg) ==
    /\ pc \in {"done", "raised"}
    /\ variant' = variant
    /\ config' = cfg
    /\ input' = cfg
    /\ repeat' = (pc = "done" /\ cfg = input)
    /\ pc' = "resource_group"
    /\ err' = ""
    /\ local' = NoLocal
    /\ ghost' = [NewGhost EXCEPT !.returned = Returned]
    /\ UNCHANGED <<cloud, authFile, keyFiles, nKeyGen, sshPublicKeys>>

\* The run ends with exception e.
Raise(e) == pc' = "raised" /\ err' = e

\* The ghost record after the calls `names` answered o; `awaited` says the
\* error is one of the transient ones the calling loop waits out.
Called(names, o, awaited) ==
    [ghost EXCEPT !.calls = @ \cup names,
                  !.faults = @ \/ o # "ok",
                  !.other = @ \/ (o # "ok" /\ ~awaited)]

----------------------------------------------------------------------------
(* _configure_resource_group                                               *)

\* Both variants: resolve the subscription id, then create-or-update the
\* resource group.
configure_resource_group(o) ==
    /\ pc = "resource_group"
    /\ config' = [config EXCEPT !.provider_subscription_id = "subscription"]
    /\ ghost' = Called({"resource_groups.create_or_update"}, o, FALSE)
    /\ IF o = "ok"
       THEN /\ cloud' = [cloud EXCEPT !.rg = TRUE]
            /\ pc' = IF variant = "azure" THEN "sp_auth" ELSE "msi_rg_get"
            /\ err' = err
       ELSE /\ Raise(o)
            /\ cloud' = cloud
    /\ UNCHANGED <<variant, input, repeat, authFile, keyFiles, nKeyGen,
                   sshPublicKeys, local>>

----------------------------------------------------------------------------
(* azure: _configure_service_principal                                     *)

\* os.path.exists(auth_path): the password is the file's clientSecret.
azure_sp_load_password ==
    /\ pc = "sp_auth"
    /\ authFile.exists
    /\ local' = [local EXCEPT !.password = authFile.clientSecret,
                              !.new_auth = FALSE]
    /\ ghost' = [ghost EXCEPT !.calls = @ \cup {"open(auth_path, r)"}]
    /\ pc' = "sp_app_list"
    /\ UNCHANGED <<variant, err, config, input, repeat, cloud, authFile,
                   keyFiles, nKeyGen, sshPublicKeys>>

\* One iteration of the `while True` loop that draws a password until it has
\* a lowercase letter, an uppercase letter, a digit and a non-alphanumeric.
azure_sp_generate_password(c) ==
    /\ pc = "sp_auth"
    /\ ~authFile.exists
    /\ local' = [local EXCEPT !.password = c, !.new_auth = TRUE]
    /\ ghost' = [ghost EXCEPT !.calls = @ \cup {"secrets.choice"}]
    /\ pc' = IF PasswordAccepted(c) THEN "sp_app_list" ELSE "sp_auth"
    /\ UNCHANGED <<variant, err, config, input, repeat, cloud, authFile,
                   keyFiles, nKeyGen, sshPublicKeys>>

\* graph_client.applications.list(filter=displayName).next()
azure_sp_applications_list(o) ==
    /\ pc = "sp_app_list"
    /\ ghost' = Called({"applications.list"}, o, FALSE)
    /\ IF o = "ok"
       THEN /\ pc' = IF cloud.app THEN "sp_sp_list" ELSE "sp_app_create"
            /\ local' = [local EXCEPT !.new_auth = @ \/ ~cloud.app]
            /\ err' = err
       ELSE /\ Raise(o)
            /\ local' = local
    /\ UNCHANGED <<variant, config, input, repeat, cloud, authFile, keyFiles,
                   nKeyGen, sshPublicKeys>>

\* graph_client.applications.create with password_credentials = [password]
azure_sp_applications_create(o) ==
    /\ pc = "sp_app_create"
    /\ ghost' = Called({"applications.create"}, o, FALSE)
    /\ IF o = "ok"
       THEN /\ cloud' = [cloud EXCEPT !.app = TRUE,
                                      !.appPassword = local.password]
            /\ pc' = "sp_sp_list"
            /\ err' = err
       ELSE /\ Raise(o)
            /\ cloud' = cloud
    /\ UNCHANGED <<variant, config, input, repeat, authFile, keyFiles,
                   nKeyGen, sshPublicKeys, local>>

\* graph_client.service_principals.list(filter=servicePrincipalNames).next()
azure_sp_service_principals_list(o) ==
    /\ pc = "sp_sp_list"
    /\ ghost' = Called({"service_principals.list"}, o, FALSE)
    /\ IF o = "ok"
       THEN /\ pc' = IF cloud.sp THEN "sp_role" ELSE "sp_sp_create"
            /\ err' = err
       ELSE Raise(o)
    /\ UNCHANGED <<variant, config, input, repeat, cloud, authFile, keyFiles,
                   nKeyGen, sshPublicKeys, local>>

\* graph_client.service_principals.create(app_id)
azure_sp_service_principals_create(o) ==
    /\ pc = "sp_sp_create"
    /\ ghost' = Called({"service_principals.create"}, o, FALSE)
    /\ IF o = "ok"
       THEN /\ cloud' = [cloud EXCEPT !.sp = TRUE]
            /\ pc' = "sp_role"
            /\ err' = err
       ELSE /\ Raise(o)
            /\ cloud' = cloud
    /\ UNCHANGED <<variant, config, input, repeat, authFile, keyFiles,
                   nKeyGen, sshPublicKeys, local>>

\* What the `except CloudError` clause of the role loop catches.
azure_role_caught(e) == IsCloudError(e)

\* Head of an iteration of `for _ in range(RETRIES)`:
\* resource_groups.get(resource_group) and role_definitions.list(...).next().
azure_sp_role_definitions(o) ==
    /\ pc = "sp_role"
    /\ local.attempt < RETRIES
    /\ ghost' = Called({"resource_groups.get", "role_definitions.list"}, o,
                       IsPrincipalNotFound(o))
    /\ IF o = "ok"
       THEN /\ pc' = "sp_role_create"
            /\ UNCHANGED <<err, local>>
       ELSE IF azure_role_caught(o)
       THEN /\ local' = [local EXCEPT !.attempt = @ + 1]
            /\ UNCHANGED <<pc, err>>
       ELSE /\ Raise(o)
            /\ local' = local
    /\ UNCHANGED <<variant, config, input, repeat, cloud, authFile, keyFiles,
                   nKeyGen, sshPublicKeys>>

\* auth_client.role_assignments.create(scope=rg_id, uuid4(), role_params),
\* then `break`; a CloudError sleeps and goes to the next iteration.
azure_sp_role_assignments_create(o) ==
    /\ pc = "sp_role_create"
    /\ ghost' = Called({"role_assignments.create"}, o, IsPrincipalNotFound(o))
    /\ IF o = "ok"
       THEN /\ cloud' = [cloud EXCEPT !.spRole = TRUE]
            /\ pc' = "sp_write"
            /\ UNCHANGED <<err, local>>
       ELSE IF azure_role_caught(o)
       THEN /\ local' = [local EXCEPT !.attempt = @ + 1]
            /\ pc' = "sp_role"
            /\ UNCHANGED <<err, cloud>>
       ELSE /\ Raise(o)
            /\ UNCHANGED <<local, cloud>>
    /\ UNCHANGED <<variant, config, input, repeat, authFile, keyFiles,
                   nKeyGen, sshPublicKeys>>

\* The for loop ends after RETRIES iterations without a break: the function
\* carries on with the statement after the loop.
azure_sp_role_loop_end ==
    /\ pc = "sp_role"
    /\ local.attempt = RETRIES
    /\ pc' = "sp_write"
    /\ UNCHANGED <<variant, err, config, input, repeat, cloud, authFile,
                   keyFiles, nKeyGen, sshPublicKeys, local, ghost>>

\* if new_auth: json.dump(credentials) to auth_path; then
\* config["provider"]["auth_path"] = auth_path.
azure_sp_write_credentials ==
    /\ pc = "sp_write"
    /\ IF local.new_auth
       THEN /\ authFile' = [exists |-> TRUE, clientSecret |-> local.password,
                            written |-> TRUE]
            /\ ghost' = [ghost EXCEPT !.calls = @ \cup {"open(auth_path, w)"}]
       ELSE UNCHANGED <<authFile, ghost>>
    /\ config' = [config EXCEPT !.provider_auth_path = auth_path(AppName)]
    /\ pc' = "key_pair"
    /\ UNCHANGED <<variant, err, input, repeat, cloud, keyFiles, nKeyGen,
                   sshPublicKeys, local>>

----------------------------------------------------------------------------
(* aci: _configure_msi_user                                                *)

\* rg_id = resource_client.resource_groups.get(resource_group).id
aci_msi_resource_groups_get(o) ==
    /\ pc = "msi_rg_get"
    /\ ghost' = Called({"resource_groups.get"}, o, FALSE)
    /\ IF o = "ok" THEN pc' = "msi_list" /\ err' = err ELSE Raise(o)
    /\ UNCHANGED <<variant, config, input, repeat, cloud, authFile, keyFiles,
                   nKeyGen, sshPublicKeys, local>>

\* identities = list(user_assigned_identities.list_by_resource_group(...));
\* the first identity found is the one used.
aci_msi_identities_list(o) ==
    /\ pc = "msi_list"
    /\ ghost' = Called({"user_assigned_identities.list_by_resource_group"},
                       o, FALSE)
    /\ IF o = "ok"
       THEN /\ IF cloud.identity
               THEN /\ config' = [config EXCEPT
                                    !.provider_msi_identity_id = "identity"]
                    /\ pc' = "msi_role"
               ELSE /\ config' = config
                    /\ pc' = "msi_create"
            /\ err' = err
       ELSE /\ Raise(o)
            /\ config' = config
    /\ UNCHANGED <<variant, input, repeat, cloud, authFile, keyFiles,
                   nKeyGen, sshPublicKeys, local>>

\* user_assigned_identities.create_or_update(resource_group, uuid4(), location)
aci_msi_identities_create(o) ==
    /\ pc = "msi_create"
    /\ ghost' = Called({"user_assigned_identities.create_or_update"}, o,
                       FALSE)
    /\ IF o = "ok"
       THEN /\ cloud' = [cloud EXCEPT !.identity = TRUE]
            /\ config' = [config EXCEPT
                            !.provider_msi_identity_id = "identity"]
            /\ pc' = "msi_role"
            /\ err' = err
       ELSE /\ Raise(o)
            /\ UNCHANGED <<cloud, config>>
    /\ UNCHANGED <<variant, input, repeat, authFile, keyFiles, nKeyGen,
                   sshPublicKeys, local>>

\* `except CloudError as ce`: PrincipalNotFound sleeps and retries, any other
\* CloudError is raised again; what is no CloudError is not caught at all.
aci_role_retried(e) == IsCloudError(e) /\ IsPrincipalNotFound(e)

\* What an error does to an iteration of assign_role's loop (create: it is
\* the answer to role_assignments.create).
aci_role_error(e, create) ==
    IF aci_role_retried(e)
    THEN /\ local' = [local EXCEPT !.attempt = @ + 1,
                                   !.roleCreatePNF = @ + (IF create THEN 1 ELSE 0)]
         /\ pc' = "msi_role"
         /\ err' = err
    ELSE /\ Raise(e)
         /\ local' = local

\* Head of an iteration of `for _ in range(RETRIES)` in assign_role:
\* role_definitions.list(rg_id, filter=Contributor).next()
aci_role_definitions(o) ==
    /\ pc = "msi_role"
    /\ local.attempt < RETRIES
    /\ ghost' = Called({"role_definitions.list"}, o, IsPrincipalNotFound(o))
    /\ IF o = "ok"
       THEN pc' = "msi_role_list" /\ UNCHANGED <<err, local>>
       ELSE aci_role_error(o, FALSE)
    /\ UNCHANGED <<variant, config, input, repeat, cloud, authFile, keyFiles,
                   nKeyGen, sshPublicKeys>>

\* role_assignments.list_for_scope(rg_id, filter=principalId): return when
\* an assignment of the Contributor role is among them.
aci_role_assignments_list(o) ==
    /\ pc = "msi_role_list"
    /\ ghost' = Called({"role_assignments.list_for_scope"}, o,
                       IsPrincipalNotFound(o))
    /\ IF o = "ok"
       THEN /\ pc' = IF cloud.msiRole THEN "key_pair" ELSE "msi_role_create"
            /\ UNCHANGED <<err, local>>
       ELSE aci_role_error(o, FALSE)
    /\ UNCHANGED <<variant, config, input, repeat, cloud, authFile, keyFiles,
                   nKeyGen, sshPublicKeys>>

\* role_assignments.create(scope=rg_id, uuid4(), role_params); return
aci_role_assignments_create(o) ==
    /\ pc = "msi_role_create"
    /\ ghost' = Called({"role_assignments.create"}, o, IsPrincipalNotFound(o))
    /\ IF o = "ok"
       THEN /\ cloud' = [cloud EXCEPT !.msiRole = TRUE]
            /\ local' = [local EXCEPT !.roleCreateOk = @ + 1]
            /\ pc' = "key_pair"
            /\ err' = err
       ELSE /\ aci_role_error(o, TRUE)
            /\ cloud' = cloud
    /\ UNCHANGED <<variant, config, input, repeat, authFile, keyFiles,
                   nKeyGen, sshPublicKeys>>

\* aci_role_loop_end with a fault: no raise after the loop, the stage
\* returns.
aci_role_loop_end_no_raise ==
    /\ pc = "msi_role"
    /\ local.attempt = RETRIES
    /\ pc' = "key_pair"
    /\ UNCHANGED <<variant, err, config, input, repeat, cloud, authFile,
                   keyFiles, nKeyGen, sshPublicKeys, local, ghost>>

\* The loop ends after RETRIES iterations:
\* raise Exception("Failed to create contributor role assignment")
aci_role_loop_end ==
    /\ pc = "msi_role"
    /\ local.attempt = RETRIES
    /\ Raise("Failed to create contributor role assignment")
    /\ UNCHANGED <<variant, config, input, repeat, cloud, authFile, keyFiles,
                   nKeyGen, sshPublicKeys, local, ghost>>

----------------------------------------------------------------------------
(* _configure_key_pair and _generate_ssh_keys                              *)

KeyName(cfg) ==
    key_name(cfg.provider_location, cfg.provider_resource_group, cfg.ssh_user)

\* key_pair_found with a fault: the pair is looked for under other file
\* names than the ones _generate_ssh_keys writes.
key_pair_found_other_names(name) ==
    /\ public_key_path(name \o ".pub") \in {p \in Paths : keyFiles[p].exists}
    /\ private_key_path(name \o ".pem") \in {p \in Paths : keyFiles[p].exists}

\* os.path.exists(public_key_path) and os.path.exists(private_key_path)
key_pair_found(name) ==
    /\ keyFiles[public_key_path(name)].exists
    /\ keyFiles[private_key_path(name)].exists

\* _generate_ssh_keys: the n-th generated key written to the two files, the
\* private one chmod 0600, the public one chmod 0644.
generate_ssh_keys(name, n) ==
    [keyFiles EXCEPT ![private_key_path(name)] = File(<<"private", n>>, Mode0600),
                     ![public_key_path(name)] = File(<<"public", n>>, Mode0644)]

\* The files `files` with the pair of `name` marked as generated for `user`.
generated_for(user, name, files) ==
    [files EXCEPT ![private_key_path(name)].generated_for = user,
                  ![public_key_path(name)].generated_for = user]

\* The files and the public key after the look-up for an existing pair.
find_or_generate(name) ==
    /\ IF key_pair_found(name)
       THEN /\ UNCHANGED <<keyFiles, nKeyGen>>
            /\ ghost' = [ghost EXCEPT !.calls = @ \cup {"open(public_key_path, r)"}]
       ELSE /\ nKeyGen < MaxKeyGen
            /\ keyFiles' = generated_for(config.ssh_user, name,
                                          generate_ssh_keys(name, nKeyGen + 1))
            /\ nKeyGen' = nKeyGen + 1
            /\ ghost' = [ghost EXCEPT !.calls = @ \cup {"RSAKey.generate"},
                                      !.keygens = @ + 1]

azure_configure_key_pair ==
    /\ pc = "key_pair"
    /\ variant = "azure"
    /\ IF config.ssh_private_key # ""
       THEN /\ IF keyFiles[config.ssh_private_key].exists
               THEN pc' = "network" /\ err' = err
               ELSE Raise("AssertionError")
            /\ UNCHANGED <<config, keyFiles, nKeyGen, ghost>>
       ELSE /\ find_or_generate(KeyName(config))
            /\ config' = [config EXCEPT
                  !.ssh_private_key = private_key_path(KeyName(config)),
                  !.provider_ssh_public_key_data =
                      keyFiles'[public_key_path(KeyName(config))].content]
            /\ pc' = "network"
            /\ err' = err
    /\ local' = NoLocal
    /\ UNCHANGED <<variant, input, repeat, cloud, authFile, sshPublicKeys>>

\* dict.update: the entries of `over` laid over those of `base`.
Update(base, over) ==
    [k \in DOMAIN base \cup DOMAIN over |->
        IF k \in DOMAIN over THEN over[k] ELSE base[k]]

\* config.get(node_type, {}) updated with a shallow copy of the default
\* os_profile, whose nested ssh mapping is the default's own.
aci_with_os_profile(t) ==
    Own(Update(t.fields, [os_profile |-> aci_DEFAULT_NODE_CONFIG.os_profile]))

\* config[node_type]["os_profile"] with public keys in it.
aci_has_public_keys(t) == t.kind # "absent" /\ "os_profile" \in DOMAIN t.fields

aci_configure_key_pair ==
    /\ pc = "key_pair"
    /\ variant = "aci"
    /\ IF config.ssh_private_key # ""
       THEN /\ IF ~keyFiles[config.ssh_private_key].exists
               THEN Raise("AssertionError")
               ELSE IF ~(aci_has_public_keys(config.head_node) /\
                         aci_has_public_keys(config.worker_nodes))
               THEN Raise("KeyError")
               ELSE pc' = "container_group" /\ err' = err
            /\ UNCHANGED <<config, keyFiles, nKeyGen, ghost, sshPublicKeys>>
       ELSE /\ find_or_generate(KeyName(config))
            /\ sshPublicKeys' =
                   keyFiles'[public_key_path(KeyName(config))].content
            /\ config' = [config EXCEPT
                  !.ssh_private_key = private_key_path(KeyName(config)),
                  !.head_node = aci_with_os_profile(config.head_node),
                  !.worker_nodes = aci_with_os_profile(config.worker_nodes)]
            /\ pc' = "container_group"
            /\ err' = err
    /\ local' = NoLocal
    /\ UNCHANGED <<variant, input, repeat, cloud, authFile>>

----------------------------------------------------------------------------
(* azure: _configure_network                                               *)

NetworkCalls ==
    {"get_client_from_auth_file", "virtual_networks.list",
     "virtual_networks.create_or_update", "subnets.create_or_update",
     "network_security_groups.create_or_update"}

\* network_skipped with a fault: network_interfaces is read from the
\* template itself instead of from its network_profile.
network_skipped_wrong_key(cfg) ==
    /\ "network_interfaces" \in DOMAIN cfg.head_node.fields
    /\ "network_interfaces" \in DOMAIN cfg.worker_nodes.fields

\* head_node_nic and worker_nodes_nic
network_skipped(cfg) == HasNic(cfg.head_node) /\ HasNic(cfg.worker_nodes)

\* The head of _configure_network: config["head_node"] and
\* config["worker_nodes"] are read, the stage returns when both carry network
\* interfaces, and otherwise builds the network client from the auth file.
azure_network_begin ==
    /\ pc = "network"
    /\ IF config.head_node.kind = "absent" \/ config.worker_nodes.kind = "absent"
       THEN Raise("KeyError") /\ UNCHANGED <<local, ghost>>
       ELSE IF network_skipped(config)
       THEN pc' = "nodes" /\ UNCHANGED <<err, local, ghost>>
       ELSE /\ pc' = "vnet_list"
            /\ err' = err
            /\ local' = [local EXCEPT !.attempt = 0, !.vnets = FALSE]
            /\ ghost' = [ghost EXCEPT
                           !.calls = @ \cup {"get_client_from_auth_file"}]
    /\ UNCHANGED <<variant, config, input, repeat, cloud, authFile, keyFiles,
                   nKeyGen, sshPublicKeys>>

\* What the `except AuthenticationError` clause of the list loop catches.
azure_vnet_list_caught(e) == IsAuthenticationError(e)

\* An iteration of `for _ in range(RETRIES)`:
\* vnets = list(virtual_networks.list(filter=name eq VNET_NAME)); break
azure_vnet_list(o) ==
    /\ pc = "vnet_list"
    /\ local.attempt < RETRIES
    /\ ghost' = Called({"virtual_networks.list"}, o, IsAuthenticationError(o))
    /\ IF o = "ok"
       THEN /\ local' = [local EXCEPT !.vnets = cloud.vnet]
            /\ pc' = IF cloud.vnet THEN "subnet" ELSE "vnet_create"
            /\ err' = err
       ELSE IF azure_vnet_list_caught(o)
       THEN /\ local' = [local EXCEPT !.attempt = @ + 1]
            /\ UNCHANGED <<pc, err>>
       ELSE /\ Raise(o)
            /\ local' = local
    /\ UNCHANGED <<variant, config, input, repeat, cloud, authFile, keyFiles,
                   nKeyGen, sshPublicKeys>>

\* The loop ends after RETRIES iterations with vnets still [].
azure_vnet_list_loop_end ==
    /\ pc = "vnet_list"
    /\ local.attempt = RETRIES
    /\ pc' = "vnet_create"
    /\ UNCHANGED <<variant, err, config, input, repeat, cloud, authFile,
                   keyFiles, nKeyGen, sshPublicKeys, local, ghost>>

\* if not vnets: virtual_networks.create_or_update(VNET_NAME, ...).wait()
azure_vnet_create(o) ==
    /\ pc = "vnet_create"
    /\ ghost' = Called({"virtual_networks.create_or_update"}, o, FALSE)
    /\ IF o = "ok"
       THEN /\ cloud' = [cloud EXCEPT !.vnet = TRUE]
            /\ pc' = "subnet"
            /\ err' = err
       ELSE /\ Raise(o)
            /\ cloud' = cloud
    /\ UNCHANGED <<variant, config, input, repeat, authFile, keyFiles,
                   nKeyGen, sshPublicKeys, local>>

subnet_id(cfg) ==
    cfg.provider_resource_group \o "/" \o VNET_NAME \o "/" \o SUBNET_NAME

\* subnet = subnets.create_or_update(VNET_NAME, SUBNET_NAME, ...).result();
\* config["provider"]["subnet_id"] = subnet.id
azure_subnet_create(o) ==
    /\ pc = "subnet"
    /\ ghost' = Called({"subnets.create_or_update"}, o, FALSE)
    /\ IF o = "ok"
       THEN /\ cloud' = [cloud EXCEPT !.subnet = TRUE]
            /\ config' = [config EXCEPT !.provider_subnet_id = subnet_id(config)]
            /\ pc' = "nsg"
            /\ err' = err
       ELSE /\ Raise(o)
            /\ UNCHANGED <<cloud, config>>
    /\ UNCHANGED <<variant, input, repeat, authFile, keyFiles, nKeyGen,
                   sshPublicKeys, local>>

\* The "location" entry of nsg_params: config["location"], a key of the
\* top level of the mapping ("" when the mapping has no such key).
nsg_location(cfg) == cfg.location

\* nsg_params = {..., "location": config["location"], ...};
\* network_security_groups.create_or_update(NSG_NAME, nsg_params)
azure_nsg_create(o) ==
    /\ pc = "nsg"
    /\ IF nsg_location(config) = ""
       THEN /\ Raise("KeyError")
            /\ UNCHANGED <<cloud, ghost>>
       ELSE /\ ghost' = Called({"network_security_groups.create_or_update"},
                               o, FALSE)
            /\ IF o = "ok"
               THEN /\ cloud' = [cloud EXCEPT !.nsg = TRUE]
                    /\ pc' = "nodes"
                    /\ err' = err
               ELSE /\ Raise(o)
                    /\ cloud' = cloud
    /\ UNCHANGED <<variant, config, input, repeat, authFile, keyFiles,
                   nKeyGen, sshPublicKeys, local>>

----------------------------------------------------------------------------
(* aci: _configure_container_group                                         *)

\* container_groups.create_or_update(resource_group, name, group)
aci_container_groups_create(o) ==
    /\ pc = "container_group"
    /\ ghost' = Called({"container_groups.create_or_update"}, o, FALSE)
    /\ IF o = "ok"
       THEN /\ cloud' = [cloud EXCEPT !.container_group = TRUE]
            /\ pc' = "container_group_get"
            /\ err' = err
       ELSE /\ Raise(o)
            /\ cloud' = cloud
    /\ UNCHANGED <<variant, config, input, repeat, authFile, keyFiles,
                   nKeyGen, sshPublicKeys, local>>

\* container_groups.get(resource_group, name)
aci_container_groups_get(o) ==
    /\ pc = "container_group_get"
    /\ ghost' = Called({"container_groups.get"}, o, FALSE)
    /\ IF o = "ok" THEN pc' = "nodes" /\ err' = err ELSE Raise(o)
    /\ UNCHANGED <<variant, config, input, repeat, cloud, authFile, keyFiles,
                   nKeyGen, sshPublicKeys, local>>

----------------------------------------------------------------------------
(* _configure_nodes                                                        *)

DefaultRef == [kind |-> "default", fields |-> NoFields]

\* azure: if node_type not in config: config[node_type] = DEFAULT_NODE_CONFIG
azure_node_config(t) == IF t.kind = "absent" THEN DefaultRef ELSE t

\* aci: node_config = DEFAULT_NODE_CONFIG.copy();
\*      node_config.update(config.get(node_type, {}))
aci_node_config(t) == Own(Update(aci_DEFAULT_NODE_CONFIG, t.fields))

node_config(v, t) ==
    IF v = "azure" THEN azure_node_config(t) ELSE aci_node_config(t)

\* The last stage; bootstrap returns the configuration.
configure_nodes ==
    /\ pc = "nodes"
    /\ config' = [config EXCEPT
                    !.head_node = node_config(variant, config.head_node),
                    !.worker_nodes = node_config(variant, config.worker_nodes)]
    /\ ghost' = [ghost EXCEPT
                   !.nodes0 = <<config.head_node, config.worker_nodes>>]
    /\ pc' = "done"
    /\ UNCHANGED <<variant, err, input, repeat, cloud, authFile, keyFiles,
                   nKeyGen, sshPublicKeys, local>>

----------------------------------------------------------------------------
Next ==
    \/ \E cfg \in ConfigInputs : bootstrap(cfg)
    \/ \E o \in Outcomes : configure_resource_group(o)
    \/ azure_sp_load_password
    \/ \E c \in Candidates : azure_sp_generate_password(c)
    \/ \E o \in Outcomes : azure_sp_applications_list(o)
    \/ \E o \in Outcomes : azure_sp_applications_create(o)
    \/ \E o \in Outcomes : azure_sp_service_principals_list(o)
    \/ \E o \in Outcomes : azure_sp_service_principals_create(o)
    \/ \E o \in Outcomes : azure_sp_role_definitions(o)
    \/ \E o \in Outcomes : azure_sp_role_assignments_create(o)
    \/ azure_sp_role_loop_end
    \/ azure_sp_write_credentials
    \/ \E o \in Outcomes : aci_msi_resource_groups_get(o)
    \/ \E o \in Outcomes : aci_msi_identities_list(o)
    \/ \E o \in Outcomes : aci_msi_identities_create(o)
    \/ \E o \in Outcomes : aci_role_definitions(o)
    \/ \E o \in Outcomes : aci_role_assignments_list(o)
    \/ \E o \in Outcomes : aci_role_assignments_create(o)
    \/ aci_role_loop_end
    \/ azure_configure_key_pair
    \/ aci_configure_key_pair
    \/ azure_network_begin
    \/ \E o \in Outcomes : azure_vnet_list(o)
    \/ azure_vnet_list_loop_end
    \/ \E o \in Outcomes : azure_vnet_create(o)
    \/ \E o \in Outcomes : azure_subnet_create(o)
    \/ \E o \in Outcomes : azure_nsg_create(o)
    \/ \E o \in Outcomes : aci_container_groups_create(o)
    \/ \E o \in Outcomes : aci_container_groups_get(o)
    \/ configure_nodes

Spec == Init /\ [][Next]_vars

\* bootstrap_aci alone, called with configurations of two resource groups.
InitAci == Init /\ variant = "aci"

NextAci ==
    \/ \E cfg \in ConfigInputs \cup OtherGroupInputs : bootstrap(cfg)
    \/ \E o \in Outcomes : configure_resource_group(o)
    \/ \E o \in Outcomes : aci_msi_resource_groups_get(o)
    \/ \E o \in Outcomes : aci_msi_identities_list(o)
    \/ \E o \in Outcomes : aci_msi_identities_create(o)
    \/ \E o \in Outcomes : aci_role_definitions(o)
    \/ \E o \in Outcomes : aci_role_assignments_list(o)
    \/ \E o \in Outcomes : aci_role_assignments_create(o)
    \/ aci_role_loop_end
    \/ aci_configure_key_pair
    \/ \E o \in Outcomes : aci_container_groups_create(o)
    \/ \E o \in Outcomes : aci_container_groups_get(o)
    \/ configure_nodes

SpecAci == InitAci /\ [][NextAci]_vars

----------------------------------------------------------------------------
(* Properties                                                              *)

CreateCalls ==
    {"applications.create", "service_principals.create",
     "user_assigned_identities.create_or_update",
     "virtual_networks.create_or_update", "role_assignments.create"}

\* C1: a run that repeats a returned run's call, on the cloud and files that
\* run left, issues no create call for the application, the service
\* principal, the identity, the virtual network or the role assignment.
C1_RerunCreatesNothing ==
    (repeat /\ pc = "done") => ghost.calls \cap CreateCalls = {}

KeyPairCalls == {"RSAKey.generate", "open(public_key_path, r)"}
AfterMsiCalls ==
    KeyPairCalls \cup {"container_groups.create_or_update", "container_groups.get"}
TerminalError == "Failed to create contributor role assignment"

\* C2: in assign_role, once role_assignments.create has succeeded it has
\* succeeded exactly once, after fewer than RETRIES failed attempts, and the
\* stage has returned; once it has been answered PrincipalNotFound RETRIES
\* times, RETRIES attempts were made, no role assignment exists, the stage
\* ends with the terminal error and no later stage has run.
C2_AssignRoleRetries ==
    variant = "aci" =>
        /\ local.roleCreateOk >= 1 =>
              /\ local.roleCreateOk = 1
              /\ local.attempt < RETRIES
              /\ cloud.msiRole
              /\ pc = "key_pair"
              /\ err = ""
        /\ local.roleCreatePNF = RETRIES =>
              /\ local.attempt = RETRIES
              /\ local.roleCreateOk = 0
              /\ ~cloud.msiRole
              /\ pc \in {"msi_role", "raised"}
              /\ pc = "raised" => err = TerminalError
              /\ ghost.calls \cap AfterMsiCalls = {}
              /\ keyFiles = ghost.keyFiles0
              /\ config.head_node = input.head_node
              /\ config.worker_nodes = input.worker_nodes

\* C2 witness: the tenth PrincipalNotFound answer ended the stage with the
\* terminal error.
C2_Witness ==
    /\ variant = "aci"
    /\ local.roleCreatePNF = RETRIES
    /\ pc = "raised"
    /\ err = TerminalError

ContributorAssigned ==
    IF variant = "azure" THEN cloud.spRole ELSE cloud.msiRole

\* C3: in both variants a role loop that used up its RETRIES attempts does
\* not go on to the statements and stages after it, and bootstrap does not
\* return while the identity has no Contributor role assignment.
C3_ExhaustedRetriesRaise ==
    /\ pc \in {"sp_write", "key_pair"} => local.attempt < RETRIES
    /\ pc = "done" => ContributorAssigned

\* C4: an error other than PrincipalNotFound in the role assignment and
\* AuthenticationError in the virtual-network listing ends the run at once.
C4_OtherErrorsPropagate == ghost.other => pc = "raised"

SpStageReturned == variant = "azure" /\ config.provider_auth_path # ""

ComplexPassword(password) ==
    /\ Len(password) >= PASSWORD_MIN_LENGTH
    /\ \E i \in DOMAIN password : password[i] \in ascii_lowercase
    /\ \E i \in DOMAIN password : password[i] \in ascii_uppercase
    /\ \E i \in DOMAIN password : password[i] \in digits
    /\ \E i \in DOMAIN password : password[i] \in punctuation

\* C5: when _configure_service_principal returns in a run that found no
\* credentials file, the file holds a password drawn in this run, of length
\* >= 16 with a lowercase letter, an uppercase letter, a digit and a
\* punctuation character; a run that finds the file an earlier run wrote uses
\* the file's password, calls no applications.create and leaves the file's
\* clientSecret as it was.
C5_CredentialsPersist ==
    /\ (SpStageReturned /\ ~ghost.authFile0.exists) =>
          /\ authFile.exists
          /\ ComplexPassword(authFile.clientSecret)
          /\ "secrets.choice" \in ghost.calls
          /\ pc = "key_pair" => authFile.clientSecret = local.password
    /\ (variant = "azure" /\ ghost.authFile0.exists /\ ghost.authFile0.written) =>
          /\ "applications.create" \notin ghost.calls
          /\ "secrets.choice" \notin ghost.calls
          /\ authFile.clientSecret = ghost.authFile0.clientSecret
          /\ pc \in {"sp_app_list", "sp_sp_list", "sp_sp_create", "sp_role",
                     "sp_role_create", "sp_write"} =>
                local.password = ghost.authFile0.clientSecret

\* C5 witness: a run that found the file an earlier run had written has
\* finished the service-principal stage.
C5_Witness ==
    /\ SpStageReturned
    /\ pc = "key_pair"
    /\ ghost.authFile0.written
    /\ "open(auth_path, r)" \in ghost.calls

MissingTemplate(cfg) ==
    cfg.head_node.kind = "absent" \/ cfg.worker_nodes.kind = "absent"

IsDefault(t) == Fields(variant, t) = DEFAULT_NODE_CONFIG(variant)

\* C6: with a configuration that lacks head_node or worker_nodes and no
\* private key of the caller's, a run in which every cloud call succeeds does
\* not fail, and it returns with the default in place of each missing
\* template.
C6_MissingTemplatesDefaulted ==
    (MissingTemplate(input) /\ input.ssh_private_key = "" /\ ~ghost.faults) =>
        /\ pc # "raised"
        /\ pc = "done" =>
              /\ input.head_node.kind = "absent" => IsDefault(config.head_node)
              /\ input.worker_nodes.kind = "absent" =>
                    IsDefault(config.worker_nodes)

\* r is t merged over the defaults.
Merged(t, r) ==
    /\ \A k \in DOMAIN DEFAULT_NODE_CONFIG(variant) \ DOMAIN t.fields :
          /\ k \in DOMAIN Fields(variant, r)
          /\ Fields(variant, r)[k] = DEFAULT_NODE_CONFIG(variant)[k]
    /\ \A k \in DOMAIN t.fields :
          /\ k \in DOMAIN Fields(variant, r)
          /\ Fields(variant, r)[k] = t.fields[k]

\* C7: _configure_nodes leaves every template the caller supplied merged
\* over DEFAULT_NODE_CONFIG: the default's keys it lacks added, its own kept.
C7_NodeDefaultsMerged ==
    pc = "done" =>
        /\ ghost.nodes0[1].kind = "own" => Merged(ghost.nodes0[1], config.head_node)
        /\ ghost.nodes0[2].kind = "own" =>
              Merged(ghost.nodes0[2], config.worker_nodes)

KeyStageRan == input.ssh_private_key = "" /\ config.ssh_private_key # ""
PublicKeyInConfig ==
    IF variant = "azure" THEN config.provider_ssh_public_key_data
    ELSE sshPublicKeys
OldPublic == ghost.keyFiles0[public_key_path(KeyName(input))]
OldPrivate == ghost.keyFiles0[private_key_path(KeyName(input))]

\* C8: the key-pair stage, with no private key configured: where neither key
\* file existed, one key was generated and the private file has mode 0600,
\* the public file mode 0644, no other file touched; where both existed, no
\* key was generated, no file changed and the configuration carries the
\* public file's content; a run repeating a returned run generates nothing.
C8_KeyPairOnce ==
    KeyStageRan =>
        /\ (~OldPublic.exists /\ ~OldPrivate.exists) =>
              /\ ghost.keygens = 1
              /\ keyFiles[private_key_path(KeyName(input))].exists
              /\ keyFiles[private_key_path(KeyName(input))].mode = Mode0600
              /\ keyFiles[public_key_path(KeyName(input))].exists
              /\ keyFiles[public_key_path(KeyName(input))].mode = Mode0644
              /\ \A p \in Paths \ {private_key_path(KeyName(input)),
                                   public_key_path(KeyName(input))} :
                    keyFiles[p] = ghost.keyFiles0[p]
              /\ config.ssh_private_key = private_key_path(KeyName(input))
        /\ (OldPublic.exists /\ OldPrivate.exists) =>
              /\ ghost.keygens = 0
              /\ keyFiles = ghost.keyFiles0
              /\ PublicKeyInConfig = OldPublic.content
        /\ repeat => ghost.keygens = 0

\* C8 witness: a run repeating a returned run has reused the key pair that
\* an earlier run generated.
C8_Witness ==
    /\ KeyStageRan
    /\ repeat
    /\ pc = "done"
    /\ OldPublic.exists /\ OldPublic.content[1] = "public"
    /\ PublicKeyInConfig = OldPublic.content

BothHaveNics(cfg) ==
    /\ cfg.head_node.kind = "own" /\ cfg.worker_nodes.kind = "own"
    /\ "network_profile" \in DOMAIN cfg.head_node.fields
    /\ "network_profile" \in DOMAIN cfg.worker_nodes.fields
    /\ cfg.head_node.fields["network_profile"] = NIC
    /\ cfg.worker_nodes.fields["network_profile"] = NIC

\* C9: when both templates carry network interfaces, _configure_network
\* returns at once: no call, no cloud change, the configuration as it was.
C9_NetworkEarlyExit ==
    [][(pc = "network" /\ BothHaveNics(config)) =>
          /\ pc' = "nodes"
          /\ config' = config
          /\ ghost'.calls = ghost.calls
          /\ cloud' = cloud]_vars

\* C9 witness: the network stage has returned for templates with network
\* interfaces, no network call made and provider.subnet_id not written.
C9_Witness ==
    /\ variant = "azure"
    /\ pc = "nodes"
    /\ BothHaveNics(config)
    /\ ghost.calls \cap NetworkCalls = {}
    /\ config.provider_subnet_id = ""

\* C10: a network stage that is not skipped and whose cloud calls all succeed
\* runs to completion: subnet and security group created or updated,
\* provider.subnet_id set.
C10_NetworkStageCompletes ==
    (variant = "azure" /\ "get_client_from_auth_file" \in ghost.calls
        /\ ~ghost.faults) =>
        /\ pc # "raised"
        /\ pc \in {"nodes", "done"} =>
              /\ cloud.vnet /\ cloud.subnet /\ cloud.nsg
              /\ "subnets.create_or_update" \in ghost.calls
              /\ "network_security_groups.create_or_update" \in ghost.calls
              /\ config.provider_subnet_id = subnet_id(config)

----------------------------------------------------------------------------
(* Key file names                                                          *)

\* The two key files the run's configuration resolves to.
KeyPaths(cfg) == {public_key_path(KeyName(cfg)), private_key_path(KeyName(cfg))}

\* C11: the key file name depends on the SSH user: no key file generated for
\* a configuration with another SSH user lies at the paths the run's
\* configuration resolves to, and a run that found its key pair instead of
\* generating one did not find a pair generated for another SSH user.
C11_KeyNameDependsOnUser ==
    /\ \A p \in KeyPaths(input) :
          keyFiles[p].generated_for \in {"", input.ssh_user}
    /\ (KeyStageRan /\ ghost.keygens = 0) =>
          \A p \in KeyPaths(input) :
             ghost.keyFiles0[p].generated_for \in {"", input.ssh_user}

----------------------------------------------------------------------------
(* Credentials file and application password                               *)

\* The credentials file holds the password the application is registered
\* with.
SecretIsRegistered ==
    /\ authFile.exists
    /\ cloud.app
    /\ authFile.clientSecret = cloud.appPassword

\* C12: whenever a bootstrap_azure run has returned, the clientSecret of the
\* credentials file equals the password in the application's password
\* credentials; and a run that wrote the file wrote the password the
\* application was created with.
C12_SecretMatchesApplication ==
    /\ (variant = "azure" /\ pc = "done") => SecretIsRegistered
    /\ "open(auth_path, w)" \in ghost.calls => SecretIsRegistered

----------------------------------------------------------------------------
(* Node templates and DEFAULT_NODE_CONFIG                                  *)

\* C13: bootstrap leaves DEFAULT_NODE_CONFIG as it was at import (the
\* public_keys slot of the aci default stays None); the templates of a
\* configuration an earlier call returned still have the public keys they
\* had on return; and the head_node and worker_nodes templates of a returned
\* configuration do not both hold state of the default, which a change to
\* one would change in the other.
C13_DefaultsNotShared ==
    /\ sshPublicKeys = <<"none", 0>>
    /\ ghost.returned.shares => sshPublicKeys = ghost.returned.keys
    /\ pc = "done" => ~(/\ SharesDefault(variant, config.head_node)
                        /\ SharesDefault(variant, config.worker_nodes))

====
